---- MODULE Spec2Model ----
(***************************************************************************)
(* Broken Calculator: the broken-key generator                             *)
(* (logic/broken_button_validator.py) and the equation validator           *)
(* (logic/equation_validator.py).                                          *)
(***************************************************************************)
EXTENDS Integers, Sequences, FiniteSets, TLC

VARIABLES
    target,     \* generate_broken_buttons: the target argument
    count0,     \* the count argument of the outermost call
    count,      \* the count argument of the current (recursive) call
    attempts,   \* the attempts argument of the current call
    samples,    \* number of random.sample draws made so far
    broken,     \* the last sample drawn / the returned list, as a set
    pc,         \* "call": a call is about to run, "done": the result is returned
    equation,   \* validate: the equation argument, a sequence of characters
    vtarget,    \* validate: the target argument
    result,     \* validate: the returned dict
    vpc,        \* "input": validate not yet called, then which call returned
    eq1,        \* are_equations_equivalent: the eq1 argument
    eq2,        \* are_equations_equivalent: the eq2 argument
    equiv,      \* its outcome: "True", "False" or "TypeError"
    canon,      \* _get_canonical_form(eq1)
    recanon,    \* _get_canonical_form of canon
    epc,        \* "input", then "compared" or "canonical"; "chain", "chained"
    eq3,        \* a third equation, for the calls on (eq2, eq3) and (eq1, eq3)
    equiv23,    \* the outcome of are_equations_equivalent(eq2, eq3)
    equiv13,    \* the outcome of are_equations_equivalent(eq1, eq3)
    htarget,    \* validate_solvable: the target argument
    hbroken,    \* validate_solvable: the broken_buttons argument, as a set
    solvable,   \* its result
    hpc         \* "input", then "checked"

gvars == <<target, count0, count, attempts, samples, broken, pc>>

vvars == <<equation, vtarget, result, vpc>>

evars == <<eq1, eq2, equiv, canon, recanon, epc, eq3, equiv23, equiv13>>

hvars == <<htarget, hbroken, solvable, hpc>>

vars == <<gvars, vvars, evars, hvars>>

(***************************************************************************)
(* Bounds of the model                                                     *)
(***************************************************************************)
\* counts 0..MaxCount: beyond the 14 keys that can be broken
MaxCount == 15

Targets == {10, 50, 51, 225, 226}

\* targets for the heuristic alone: around the estimates 10 * 9, 9 * 9, 5 * 45
HeuristicTargets == {0, 10, 81, 82, 90, 91, 225, 226}

\* longest equation text drawn exhaustively over Alphabet
MaxLen == 4

\* validate's integer targets are 0..MaxVTarget
MaxVTarget == 3

\* '@' stands for the characters validate's first check rejects
Alphabet == {"0", "1", "2", "+", "-", "*", "/", "(", ")", ".", " ", "@"}

ShortTexts == UNION {[1..n -> Alphabet] : n \in 0..MaxLen}

\* Longer equations: two or three operands joined by infix operators.
Operands ==
    { <<"0">>, <<"2">>, <<"3">>, <<".", "5">>, <<"-", "2">>, <<"+", "2">>,
      <<"(", "2", "-", "2", ")">>, <<"(", "1", "+", "2", ")">> }

Infixes ==
    { <<"+">>, <<" ", "+">>, <<" ", "+", " ">>, <<"-">>, <<"*">>, <<"/">>,
      <<"*", "*">> }

Composed ==
    {a \o o \o b : a \in Operands, o \in Infixes, b \in Operands}
    \cup {a \o o \o b \o q \o c :
             a \in Operands, o \in Infixes, b \in Operands,
             q \in Infixes, c \in Operands}

Equations == ShortTexts \cup Composed

\* Pairs of equations for are_equations_equivalent: one to three operands
\* joined by operators, flat and parenthesized on either side, and texts
\* that are no sum, product, difference or quotient of numbers.
PairTerms == { <<"1">>, <<"2">> }

PairOps == { <<"+">>, <<"-">>, <<"*">>, <<"/">> }

ChainOps == { <<"+">>, <<"-">>, <<"*">> }

Chains ==
    {a \o o \o b : a \in PairTerms, o \in PairOps, b \in PairTerms}
    \cup {a \o o \o b \o q \o c :
             a \in PairTerms, o \in ChainOps, b \in PairTerms,
             q \in ChainOps, c \in PairTerms}
    \cup {<<"(">> \o a \o o \o b \o <<")">> \o q \o c :
             a \in PairTerms, o \in ChainOps, b \in PairTerms,
             q \in ChainOps, c \in PairTerms}
    \cup {a \o o \o <<"(">> \o b \o q \o c \o <<")">> :
             a \in PairTerms, o \in ChainOps, b \in PairTerms,
             q \in ChainOps, c \in PairTerms}

Specials ==
    { <<>>, <<" ">>, <<"1">>, <<"2">>, <<"0">>, <<"1", "2">>, <<"1", " ", "2">>,
      <<"0", "1">>, <<"1", ".", "0">>, <<"2", ".">>, <<"2", ".", "0">>,
      <<".", "5">>, <<"1", " ", ".">>, <<"(", "1", ")">>,
      <<"+", "1">>, <<"-", "1">>, <<"-", "-", "1">>, <<"1", "-", "-", "2">>,
      <<"2", "+", "+", "1">>, <<"1", "+", "-", "2">>, <<"-", "2", "+", "1">>,
      <<"-", "(", "1", "+", "2", ")">>, <<"-", "(", "2", "+", "1", ")">>,
      <<" ", "1", "+", "2">>, <<"1", " ", "+", "2">>, <<"1", "+", "2", " ">>,
      <<"1", " ", "+", " ", "2">>, <<"1", "+">>, <<"+">>, <<"(", "1", "+", "2">>,
      <<"1", "/", "0">>, <<"1", "/", "0", "+", "2">>, <<"2", "+", "1", "/", "0">>,
      <<"0", "*", "2">>, <<"2", "*", "0">>,
      <<".", ".", ".">>, <<".", ".", ".", "+", "1">>, <<"1", "+", ".", ".", ".">>,
      <<"(", ")">>, <<"2", "(", "1", ")">>, <<"2", "(", ")">>,
      <<"2", "*", "*", "1">>, <<"2", "/", "/", "1">>, <<"2", "@", "1">>,
      <<"1", "*", "*", "2">>, <<"(", ")", "*", "*", "2">>,
      <<"(", ")", "*", "*", "(", ")">>, <<"1", "@">> }

PairTexts == Chains \cup Specials

\* Triples of equations: two operands joined by '+', '-' or '*', with and
\* without a blank before the text and before the operator, chains of three
\* operands, and a few texts that are no such equation.
Pad == { <<>>, <<" ">> }

Spaced ==
    {l \o a \o m \o o \o b :
        l \in Pad, a \in PairTerms, m \in Pad, o \in ChainOps, b \in PairTerms}

TripleTexts ==
    Spaced
    \cup { <<"1">>, <<" ", "1">>, <<"1", " ">>, <<"1", ".", "0">>, <<"-", "1">>,
           <<"1", "+", "2", "+", "1">>, <<"(", "1", "+", "2", ")", "+", "1">>,
           <<"1", "+", "(", "2", "+", "1", ")">>, <<"1", "+">>, <<"1", " ", "2">>,
           <<"1", "2">>, <<"+", "1">> }

(***************************************************************************)
(* BrokenButtonValidator                                                   *)
(***************************************************************************)
DigitButtons == {"0", "1", "2", "3", "4", "5", "6", "7", "8", "9"}

OperatorButtons == {"+", "-", "*", "/"}

ALL_BUTTONS == DigitButtons \cup OperatorButtons \cup {"(", ")"}

SMALL_TARGET_THRESHOLD == 50

MAX_RECURSION_ATTEMPTS == 10

\* int(b) for a digit button b
DigitValue(b) ==
    CASE b = "0" -> 0 [] b = "1" -> 1 [] b = "2" -> 2 [] b = "3" -> 3
      [] b = "4" -> 4 [] b = "5" -> 5 [] b = "6" -> 6 [] b = "7" -> 7
      [] b = "8" -> 8 [] b = "9" -> 9

Max2(a, b) == IF a >= b THEN a ELSE b

Min2(a, b) == IF a <= b THEN a ELSE b

\* max(digits) for a non-empty set of integers
MaxOf(S) == CHOOSE m \in S : \A x \in S : x <= m

RECURSIVE SumOf(_)
SumOf(S) ==
    IF S = {} THEN 0
    ELSE LET x == CHOOSE y \in S : TRUE IN x + SumOf(S \ {x})

_get_required_working_buttons(t) ==
    IF t <= SMALL_TARGET_THRESHOLD THEN {"1", "+"} ELSE {"2", "*", "+"}

\* the estimate without the sum term
_estimate_max_reachable_value_no_sum(digits, operators) ==
    LET max_digit == MaxOf(digits)
        e0 == max_digit * 10
    IN IF "*" \in operators /\ Cardinality(digits) >= 2
       THEN Max2(e0, max_digit * max_digit) ELSE e0

_estimate_max_reachable_value(digits, operators) ==
    LET max_digit == MaxOf(digits)
        e0 == max_digit * 10
        e1 == IF "+" \in operators THEN Max2(e0, SumOf(digits) * 5) ELSE e0
        e2 == IF "*" \in operators /\ Cardinality(digits) >= 2
              THEN Max2(e1, max_digit * max_digit) ELSE e1
    IN e2

\* the heuristic with the largest digit not scaled up
validate_solvable_unscaled(t, broken_buttons) ==
    LET working_buttons == ALL_BUTTONS \ broken_buttons
        digits == {DigitValue(b) : b \in working_buttons \cap DigitButtons}
        operators == working_buttons \cap OperatorButtons
    IN IF digits = {} \/ operators = {}
       THEN FALSE
       ELSE Max2(MaxOf(digits),
                 IF "+" \in operators THEN SumOf(digits) * 5 ELSE 0) >= t

validate_solvable(t, broken_buttons) ==
    LET working_buttons == ALL_BUTTONS \ broken_buttons
        digits == {DigitValue(b) : b \in working_buttons \cap DigitButtons}
        operators == working_buttons \cap OperatorButtons
    IN IF digits = {} \/ operators = {}
       THEN FALSE
       ELSE _estimate_max_reachable_value(digits, operators) >= t

\* random.sample(breakable, k): every k-element subset is a possible outcome
Sample(S, k) == {B \in SUBSET S : Cardinality(B) = k}

\* breakable without the exclusion of the required keys
Breakable_all(t) == ALL_BUTTONS

Breakable(t) == ALL_BUTTONS \ _get_required_working_buttons(t)

\* a generator that never consults the heuristic
Rejects_never(t, B) == FALSE

\* if not self.validate_solvable(target, broken)
Rejects(t, B) == ~validate_solvable(t, B)

\* a retry that forgets to count the attempt
NextAttempts_same(a) == a

\* the attempts argument of the recursive call
NextAttempts(a) == a + 1


(***************************************************************************)
(* Equation texts: sequences of one-character strings.                     *)
(***************************************************************************)
Digits == {"0", "1", "2", "3", "4", "5", "6", "7", "8", "9"}

\* The characters validate's first regular expression lets through:
\* 0-9 + - * / ( ) . and whitespace (the space stands for \s).
AllowedChars == Digits \cup {"+", "-", "*", "/", "(", ")", ".", " "}

IsDigit(c) == c \in Digits

\* the letters of the words str() can put into a canonical form
\* ("None", "Ellipsis"); the equations drawn as inputs have none
Letters == {"E", "N", "e", "i", "l", "n", "o", "p", "s"}

IsLetter(c) == c \in Letters

CharValue(c) == DigitValue(c)

(***************************************************************************)
(* ast.parse(expr, mode="eval"): the tokens of the texts the model draws   *)
(* (digits, '.', operators, parentheses, '@', spaces) and the expression   *)
(* grammar over them.                                                      *)
(***************************************************************************)
\* first index after the run of digits starting at i
RECURSIVE DigitsEnd(_, _)
DigitsEnd(s, i) ==
    IF i <= Len(s) /\ IsDigit(s[i]) THEN DigitsEnd(s, i + 1) ELSE i

AllZeros(t) == \A i \in 1..Len(t) : t[i] = "0"

\* first index after the run of letters and digits starting at i
RECURSIVE NameEnd(_, _)
NameEnd(s, i) ==
    IF i <= Len(s) /\ (IsLetter(s[i]) \/ IsDigit(s[i])) THEN NameEnd(s, i + 1)
    ELSE i

\* a letter right after a number ("2None"): invalid decimal literal
LetterAt(s, i) == i <= Len(s) /\ IsLetter(s[i])

Tok(type, text) == [t |-> type, text |-> text]

LexFail == [ok |-> FALSE, toks |-> <<>>]

\* The tokenizer.  A number is digits, optionally '.' and digits, or '.'
\* and digits; an integer literal with a leading zero is an error unless it
\* is all zeros; "..." is the Ellipsis token; a lone '.' can only start an
\* attribute reference, which needs a name, so it is an error.
RECURSIVE Lex(_, _, _)
Lex(s, i, acc) ==
    IF i > Len(s) THEN [ok |-> TRUE, toks |-> acc]
    ELSE LET c == s[i]
             nxt == IF i < Len(s) THEN s[i + 1] ELSE ""
         IN
         IF c = " " THEN Lex(s, i + 1, acc)
         ELSE IF IsDigit(c) \/ (c = "." /\ IsDigit(nxt)) THEN
             LET j == DigitsEnd(s, i)
             IN IF j <= Len(s) /\ s[j] = "."
                THEN LET k == DigitsEnd(s, j + 1)
                     IN IF LetterAt(s, k) THEN LexFail
                        ELSE Lex(s, k, Append(acc, Tok("float", SubSeq(s, i, k - 1))))
                ELSE LET text == SubSeq(s, i, j - 1)
                     IN IF Len(text) > 1 /\ text[1] = "0" /\ ~AllZeros(text)
                        THEN LexFail
                        ELSE IF LetterAt(s, j) THEN LexFail
                        ELSE Lex(s, j, Append(acc, Tok("int", text)))
         ELSE IF IsLetter(c) THEN
             LET j == NameEnd(s, i)
                 text == SubSeq(s, i, j - 1)
             IN IF text = <<"N", "o", "n", "e">>
                THEN Lex(s, j, Append(acc, Tok("None", <<>>)))
                ELSE Lex(s, j, Append(acc, Tok("name", text)))
         ELSE IF c = "." THEN
             IF i + 2 <= Len(s) /\ s[i + 1] = "." /\ s[i + 2] = "."
             THEN Lex(s, i + 3, Append(acc, Tok("...", <<>>)))
             ELSE LexFail
         ELSE IF c = "*" /\ nxt = "*" THEN Lex(s, i + 2, Append(acc, Tok("**", <<>>)))
         ELSE IF c = "/" /\ nxt = "/" THEN Lex(s, i + 2, Append(acc, Tok("//", <<>>)))
         ELSE IF c \in {"+", "-", "*", "/", "(", ")", "@"}
              THEN Lex(s, i + 1, Append(acc, Tok(c, <<>>)))
         ELSE LexFail

\* AST nodes (ast.Constant, ast.UnaryOp, ast.BinOp, ast.Call, ast.Tuple,
\* ast.Name).
\* A Call keeps its func only: no code of the program reads the arguments.
NoNode == [k |-> "None"]

Constant(tok) == [k |-> "Constant", tok |-> tok]

UnaryOp(op, operand) == [k |-> "UnaryOp", op |-> op, operand |-> operand]

BinOp(left, op, right) == [k |-> "BinOp", op |-> op, left |-> left, right |-> right]

Call(func) == [k |-> "Call", func |-> func]

TupleNode == [k |-> "Tuple"]

NameNode == [k |-> "Name"]

ParseFail == [ok |-> FALSE, node |-> NoNode, pos |-> 0]

Parsed(node, pos) == [ok |-> TRUE, node |-> node, pos |-> pos]

TokAt(toks, p) == IF p <= Len(toks) THEN toks[p].t ELSE "EOF"

BinOpName(t) ==
    CASE t = "+" -> "Add" [] t = "-" -> "Sub" [] t = "*" -> "Mult"
      [] t = "/" -> "Div" [] t = "//" -> "FloorDiv" [] t = "@" -> "MatMult"
      [] t = "**" -> "Pow"

UnaryOpName(t) == IF t = "-" THEN "USub" ELSE "UAdd"

\* The expression grammar, one rule per branch; left is the operand or the
\* callee already parsed, for the rules that continue a left-recursive one.
RECURSIVE ParseRule(_, _, _, _)
ParseRule(rule, toks, p, left) ==
    CASE rule = "sum" ->
           \* sum: sum ('+'|'-') term | term
           LET f == ParseRule("term", toks, p, NoNode)
           IN IF f.ok THEN ParseRule("sum_rest", toks, f.pos, f.node)
              ELSE ParseFail
      [] rule = "sum_rest" ->
           IF TokAt(toks, p) \in {"+", "-"}
           THEN LET r == ParseRule("term", toks, p + 1, NoNode)
                IN IF r.ok
                   THEN ParseRule("sum_rest", toks, r.pos,
                                  BinOp(left, BinOpName(toks[p].t), r.node))
                   ELSE ParseFail
           ELSE Parsed(left, p)
      [] rule = "term" ->
           \* term: term ('*'|'/'|'//'|'@') factor | factor
           LET f == ParseRule("factor", toks, p, NoNode)
           IN IF f.ok THEN ParseRule("term_rest", toks, f.pos, f.node)
              ELSE ParseFail
      [] rule = "term_rest" ->
           IF TokAt(toks, p) \in {"*", "/", "//", "@"}
           THEN LET r == ParseRule("factor", toks, p + 1, NoNode)
                IN IF r.ok
                   THEN ParseRule("term_rest", toks, r.pos,
                                  BinOp(left, BinOpName(toks[p].t), r.node))
                   ELSE ParseFail
           ELSE Parsed(left, p)
      [] rule = "factor" ->
           \* factor: ('+'|'-') factor | power
           IF TokAt(toks, p) \in {"+", "-"}
           THEN LET f == ParseRule("factor", toks, p + 1, NoNode)
                IN IF f.ok
                   THEN Parsed(UnaryOp(UnaryOpName(toks[p].t), f.node), f.pos)
                   ELSE ParseFail
           ELSE ParseRule("power", toks, p, NoNode)
      [] rule = "power" ->
           \* power: primary '**' factor | primary
           LET b == ParseRule("primary", toks, p, NoNode)
           IN IF ~b.ok THEN ParseFail
              ELSE IF TokAt(toks, b.pos) = "**"
              THEN LET e == ParseRule("factor", toks, b.pos + 1, NoNode)
                   IN IF e.ok THEN Parsed(BinOp(b.node, "Pow", e.node), e.pos)
                      ELSE ParseFail
              ELSE b
      [] rule = "primary" ->
           \* primary: primary '(' [arguments] ')' | atom
           LET a == ParseRule("atom", toks, p, NoNode)
           IN IF a.ok THEN ParseRule("primary_rest", toks, a.pos, a.node)
              ELSE ParseFail
      [] rule = "primary_rest" ->
           \* the one argument a text without commas can give:
           \* expr, '*' expr, '**' expr
           IF TokAt(toks, p) = "("
           THEN IF TokAt(toks, p + 1) = ")"
                THEN ParseRule("primary_rest", toks, p + 2, Call(left))
                ELSE LET q == IF TokAt(toks, p + 1) \in {"*", "**"}
                              THEN p + 2 ELSE p + 1
                         e == ParseRule("sum", toks, q, NoNode)
                     IN IF e.ok /\ TokAt(toks, e.pos) = ")"
                        THEN ParseRule("primary_rest", toks, e.pos + 1, Call(left))
                        ELSE ParseFail
           ELSE Parsed(left, p)
      [] rule = "atom" ->
           \* atom: NUMBER | '...' | 'None' | NAME | '(' ')' | '(' expression ')'
           LET t == TokAt(toks, p)
           IN IF t \in {"int", "float", "...", "None"}
              THEN Parsed(Constant(toks[p]), p + 1)
              ELSE IF t = "name" THEN Parsed(NameNode, p + 1)
              ELSE IF t = "("
              THEN IF TokAt(toks, p + 1) = ")"
                   THEN Parsed(TupleNode, p + 2)
                   ELSE LET e == ParseRule("sum", toks, p + 1, NoNode)
                        IN IF e.ok /\ TokAt(toks, e.pos) = ")"
                           THEN Parsed(e.node, e.pos + 1)
                           ELSE ParseFail
              ELSE ParseFail

\* ast.parse(text, mode="eval").body, or a SyntaxError (ok = FALSE): leading
\* whitespace is an IndentationError, a subclass of SyntaxError.
ast_parse(s) ==
    IF s = <<>> \/ s[1] = " " THEN ParseFail
    ELSE LET l == Lex(s, 1, <<>>)
         IN IF ~l.ok \/ l.toks = <<>> THEN ParseFail
            ELSE LET r == ParseRule("sum", l.toks, 1, NoNode)
                 IN IF r.ok /\ r.pos = Len(l.toks) + 1 THEN r ELSE ParseFail


(***************************************************************************)
(* Numbers.  A Python int or float is modelled by the exact rational it    *)
(* denotes, [n, d] in lowest terms with d > 0; Ellipsis and None are the   *)
(* two values that are not numbers.                                        *)
(***************************************************************************)
Abs(x) == IF x < 0 THEN -x ELSE x

RECURSIVE GCD(_, _)
GCD(a, b) == IF b = 0 THEN a ELSE GCD(b, a % b)

Rat(n, d) ==
    LET g == GCD(Abs(n), Abs(d))
        sgn == IF d < 0 THEN -1 ELSE 1
    IN [t |-> "num", n |-> sgn * (n \div g), d |-> sgn * (d \div g)]

IntRat(i) == [t |-> "num", n |-> i, d |-> 1]

EllipsisValue == [t |-> "Ellipsis", n |-> 0, d |-> 1]

NoneValue == [t |-> "None", n |-> 0, d |-> 1]

RatAdd(a, b) == Rat(a.n * b.d + b.n * a.d, a.d * b.d)

RatSub(a, b) == Rat(a.n * b.d - b.n * a.d, a.d * b.d)

RatMul(a, b) == Rat(a.n * b.n, a.d * b.d)

RatDiv(a, b) == Rat(a.n * b.d, a.d * b.n)

RatNeg(a) == [t |-> "num", n |-> -a.n, d |-> a.d]

RatAbs(a) == [t |-> "num", n |-> Abs(a.n), d |-> a.d]

RatLeq(a, b) == a.n * b.d <= b.n * a.d

RECURSIVE IntOf(_)
IntOf(text) ==
    IF text = <<>> THEN 0
    ELSE IntOf(SubSeq(text, 1, Len(text) - 1)) * 10 + CharValue(text[Len(text)])

RECURSIVE Pow10(_)
Pow10(k) == IF k = 0 THEN 1 ELSE 10 * Pow10(k - 1)

\* node.n of a Constant: the value of the literal
TokenValue(tok) ==
    CASE tok.t = "int" -> IntRat(IntOf(tok.text))
      [] tok.t = "float" ->
            LET dot == CHOOSE i \in 1..Len(tok.text) : tok.text[i] = "."
                whole == SubSeq(tok.text, 1, dot - 1)
                frac == SubSeq(tok.text, dot + 1, Len(tok.text))
            IN Rat(IntOf(whole \o frac), Pow10(Len(frac)))
      [] tok.t = "..." -> EllipsisValue
      [] tok.t = "None" -> NoneValue

(***************************************************************************)
(* safe_eval                                                               *)
(***************************************************************************)
allowed_operators == {"Add", "Sub", "Mult", "Div", "USub"}

Returned(v) == [status |-> "ok", value |-> v, detail |-> ""]

Raised(exc, detail) == [status |-> exc, value |-> NoneValue, detail |-> detail]

\* op_func(left, right) for an allowed binary operator
ApplyBinOp(op, l, r) ==
    IF l.t # "num" \/ r.t # "num"
    THEN Raised("TypeError", "unsupported operand type(s)")
    ELSE CASE op = "Add" -> Returned(RatAdd(l, r))
           [] op = "Sub" -> Returned(RatSub(l, r))
           [] op = "Mult" -> Returned(RatMul(l, r))
           [] op = "Div" -> IF r.n = 0
                            THEN Raised("ZeroDivisionError", "division by zero")
                            ELSE Returned(RatDiv(l, r))

RECURSIVE _eval_node(_)
_eval_node(node) ==
    CASE node.k = "Constant" -> Returned(TokenValue(node.tok))
      [] node.k = "UnaryOp" ->
            IF node.op \notin allowed_operators
            THEN Raised("TypeError", "Disallowed operator: " \o node.op)
            ELSE LET v == _eval_node(node.operand)
                 IN IF v.status # "ok" THEN v
                    ELSE IF v.value.t # "num"
                    THEN Raised("TypeError", "bad operand type for unary -")
                    ELSE Returned(RatNeg(v.value))
      [] node.k = "BinOp" ->
            IF node.op \notin allowed_operators
            THEN Raised("TypeError", "Disallowed operator: " \o node.op)
            ELSE LET l == _eval_node(node.left)
                 IN IF l.status # "ok" THEN l
                    ELSE LET r == _eval_node(node.right)
                         IN IF r.status # "ok" THEN r
                            ELSE ApplyBinOp(node.op, l.value, r.value)
      [] OTHER -> Raised("TypeError", "Disallowed operation: " \o node.k)

safe_eval(expr) ==
    LET tree == ast_parse(expr)
    IN IF ~tree.ok THEN Raised("ValueError", "Invalid syntax in expression")
       ELSE _eval_node(tree.node)

(***************************************************************************)
(* EquationValidator.validate                                              *)
(***************************************************************************)
\* equation.strip()
RECURSIVE Strip(_)
Strip(s) ==
    IF s = <<>> THEN s
    ELSE IF s[1] = " " THEN Strip(Tail(s))
    ELSE IF s[Len(s)] = " " THEN Strip(SubSeq(s, 1, Len(s) - 1))
    ELSE s

\* re.search(r"[^0-9+\-*/().\s]", equation)
HasIllegalChar(s) == \E i \in 1..Len(s) : s[i] \notin AllowedChars

\* re.search(r"(^|\(|\s)\+", equation)
UnaryPlusMatch(s) ==
    \E i \in 1..Len(s) : s[i] = "+" /\ (i = 1 \/ s[i - 1] \in {"(", " "})

\* 1 / rel_tol for math.isclose's default rel_tol = 1e-09
REL_TOL_INV == 1000000000

\* math.isclose(a, b): a == b, or |a - b| <= rel_tol * max(|a|, |b|)
IsClose(a, b) ==
    \/ a = b
    \/ LET diff == RatAbs(RatSub(a, b))
           big == IF RatLeq(RatAbs(a), RatAbs(b)) THEN RatAbs(b) ELSE RatAbs(a)
       IN diff.n * big.d <= (big.n * diff.d) \div REL_TOL_INV

Result(valid, error, value) == [valid |-> valid, error |-> error, value |-> value]

\* except ZeroDivisionError: result["error"] = "Division by zero"
ZeroDivisionResult_silent == Result(FALSE, "", NoneValue)

ZeroDivisionResult == Result(FALSE, "Division by zero", NoneValue)

\* the try block of validate: evaluate, store the value, compare
Evaluated(e, tgt) ==
    LET r == safe_eval(e)
    IN CASE r.status = "ok" ->
              IF r.value.t # "num"
              THEN Result(FALSE, "Invalid equation: must be real number", r.value)
              ELSE IF IsClose(r.value, tgt)
              THEN Result(TRUE, "", r.value)
              ELSE Result(FALSE, "Result is {value:.2f}, not {target}", r.value)
         [] r.status = "ZeroDivisionError" -> ZeroDivisionResult
         [] r.status \in {"ValueError", "TypeError"} ->
              Result(FALSE, "Invalid equation: " \o r.detail, NoneValue)

\* validate with the unary-plus check moved before the character check
validate_swapped(eq, tgt) ==
    LET e == Strip(eq)
    IN IF e = <<>> THEN Result(FALSE, "Equation is empty", NoneValue)
       ELSE IF UnaryPlusMatch(e)
       THEN Result(FALSE, "Unary plus is not allowed", NoneValue)
       ELSE IF HasIllegalChar(e)
       THEN Result(FALSE, "Invalid characters in equation", NoneValue)
       ELSE Evaluated(e, tgt)

validate(eq, tgt) ==
    LET e == Strip(eq)
    IN IF e = <<>> THEN Result(FALSE, "Equation is empty", NoneValue)
       ELSE IF HasIllegalChar(e)
       THEN Result(FALSE, "Invalid characters in equation", NoneValue)
       ELSE IF UnaryPlusMatch(e)
       THEN Result(FALSE, "Unary plus is not allowed", NoneValue)
       ELSE Evaluated(e, tgt)

\* validate(equation, target) for an integer target
Validate ==
    /\ vpc = "input"
    /\ \E t \in 0..MaxVTarget :
          /\ vtarget' = IntRat(t)
          /\ result' = validate(equation, IntRat(t))
    /\ vpc' = "validated"
    /\ UNCHANGED <<equation, gvars, evars, hvars>>

\* validate(E, evaluate(E)) for an equation E that evaluates to a number
RoundTrip ==
    /\ vpc = "input"
    /\ LET r == safe_eval(equation)
       IN /\ r.status = "ok"
          /\ r.value.t = "num"
          /\ vtarget' = r.value
          /\ result' = validate(equation, r.value)
    /\ vpc' = "roundtrip"
    /\ UNCHANGED <<equation, gvars, evars, hvars>>

(***************************************************************************)
(* EquationValidator._get_canonical_form                                   *)
(***************************************************************************)
\* equation.replace(" ", "")
RECURSIVE RemoveSpaces(_)
RemoveSpaces(s) ==
    IF s = <<>> THEN s
    ELSE IF s[1] = " " THEN RemoveSpaces(Tail(s))
    ELSE <<s[1]>> \o RemoveSpaces(Tail(s))

DigitChar(d) ==
    CASE d = 0 -> "0" [] d = 1 -> "1" [] d = 2 -> "2" [] d = 3 -> "3"
      [] d = 4 -> "4" [] d = 5 -> "5" [] d = 6 -> "6" [] d = 7 -> "7"
      [] d = 8 -> "8" [] d = 9 -> "9"

\* str(i) for an int i >= 0
RECURSIVE IntText(_)
IntText(i) ==
    IF i < 10 THEN <<DigitChar(i)>>
    ELSE IntText(i \div 10) \o <<DigitChar(i % 10)>>

\* a digit text without its trailing zeros
RECURSIVE DropTrailingZeros(_)
DropTrailingZeros(t) ==
    IF t # <<>> /\ t[Len(t)] = "0"
    THEN DropTrailingZeros(SubSeq(t, 1, Len(t) - 1))
    ELSE t

\* str(node.n): an int prints without leading zeros; a float prints as its
\* shortest decimal, integer part, '.', and at least one fraction digit
\* (positional notation: the literals drawn have under 17 digits and fewer
\* than 4 zeros after the point); then the two constants that are no numbers.
StrOf(tok) ==
    CASE tok.t = "int" -> IntText(IntOf(tok.text))
      [] tok.t = "float" ->
            LET dot == CHOOSE i \in 1..Len(tok.text) : tok.text[i] = "."
                whole == SubSeq(tok.text, 1, dot - 1)
                frac == DropTrailingZeros(SubSeq(tok.text, dot + 1, Len(tok.text)))
            IN IntText(IntOf(whole)) \o <<".">>
               \o (IF frac = <<>> THEN <<"0">> ELSE frac)
      [] tok.t = "..." -> <<"E", "l", "l", "i", "p", "s", "i", "s">>
      [] tok.t = "None" -> <<"N", "o", "n", "e">>

\* code points, for the order operands.sort() puts strings in
Ord(c) ==
    CASE c = "(" -> 40 [] c = ")" -> 41 [] c = "*" -> 42 [] c = "+" -> 43
      [] c = "-" -> 45 [] c = "." -> 46 [] c = "/" -> 47
      [] c \in Digits -> 48 + DigitValue(c)
      [] c = "E" -> 69 [] c = "N" -> 78 [] c = "e" -> 101 [] c = "i" -> 105
      [] c = "l" -> 108 [] c = "n" -> 110 [] c = "o" -> 111 [] c = "p" -> 112
      [] c = "s" -> 115

\* a <= b for Python strings
RECURSIVE StrLeq(_, _)
StrLeq(a, b) ==
    IF a = <<>> THEN TRUE
    ELSE IF b = <<>> THEN FALSE
    ELSE IF a[1] = b[1] THEN StrLeq(Tail(a), Tail(b))
    ELSE Ord(a[1]) < Ord(b[1])

\* x put into the sorted list l
RECURSIVE Insert(_, _)
Insert(x, l) ==
    IF l = <<>> THEN <<x>>
    ELSE IF StrLeq(x, l[1]) THEN <<x>> \o l
    ELSE <<l[1]>> \o Insert(x, Tail(l))

\* the operands left in the order they were collected
Sorted_unsorted(l) == l

\* operands.sort()
RECURSIVE Sorted(_)
Sorted(l) == IF l = <<>> THEN l ELSE Insert(l[1], Sorted(Tail(l)))

\* op_symbol.join(operands)
RECURSIVE Join(_, _)
Join(sep, l) ==
    IF l = <<>> THEN <<>>
    ELSE IF Len(l) = 1 THEN l[1]
    ELSE l[1] \o sep \o Join(sep, Tail(l))

\* .get(op_type) of the symbol table: None for an operator it does not list
op_symbol_minus_as_plus(op) ==
    CASE op = "Add" -> <<"+">> [] op = "Sub" -> <<"+">> [] op = "Mult" -> <<"*">>
      [] op = "Div" -> <<"/">> [] OTHER -> <<"N", "o", "n", "e">>

op_symbol(op) ==
    CASE op = "Add" -> <<"+">> [] op = "Sub" -> <<"-">> [] op = "Mult" -> <<"*">>
      [] op = "Div" -> <<"/">> [] OTHER -> <<"N", "o", "n", "e">>

\* every operator taken for commutative
commutative_all == {"Add", "Sub", "Mult", "Div"}

\* if op_type in (ast.Add, ast.Mult)
commutative == {"Add", "Mult"}

\* _collect_operands: the sub-nodes that are not BinOps of the same operator,
\* left to right
RECURSIVE _collect_operands(_, _)
_collect_operands(sub_node, op_type) ==
    IF sub_node.k = "BinOp" /\ sub_node.op = op_type
    THEN _collect_operands(sub_node.left, op_type)
         \o _collect_operands(sub_node.right, op_type)
    ELSE <<sub_node>>

RECURSIVE _canonicalize(_)
_canonicalize(node) ==
    CASE node.k = "Constant" -> StrOf(node.tok)
      [] node.k = "UnaryOp" ->
            <<"(">> \o (IF node.op = "USub" THEN <<"-">> ELSE <<>>)
            \o _canonicalize(node.operand) \o <<")">>
      [] node.k = "BinOp" ->
            IF node.op \in commutative
            THEN LET nodes == _collect_operands(node, node.op)
                     operands == [i \in 1..Len(nodes) |-> _canonicalize(nodes[i])]
                 IN <<"(">> \o Join(op_symbol(node.op), Sorted(operands)) \o <<")">>
            ELSE <<"(">> \o _canonicalize(node.left) \o op_symbol(node.op)
                 \o _canonicalize(node.right) \o <<")">>
      [] OTHER -> <<>>

_get_canonical_form(eq) ==
    LET tree == ast_parse(eq)
    IN IF ~tree.ok THEN RemoveSpaces(eq) ELSE _canonicalize(tree.node)

(***************************************************************************)
(* EquationValidator.are_equations_equivalent                              *)
(***************************************************************************)
\* Counter(l): how often each element occurs
Counter(l) ==
    [x \in {l[i] : i \in 1..Len(l)} |-> Cardinality({i \in 1..Len(l) : l[i] = x})]

Extracted(operands, operators) ==
    [ok |-> TRUE, operands |-> operands, operators |-> operators]

\* int(val) of a constant that is no number raises TypeError
ExtractFail == [ok |-> FALSE, operands |-> <<>>, operators |-> <<>>]

\* _extract: the operand values and the operator names in visiting order;
\* int(val) if val == int(val) else val denotes the same number as val
RECURSIVE _extract(_)
_extract(node) ==
    CASE node.k = "Constant" ->
            LET val == TokenValue(node.tok)
            IN IF val.t = "num" THEN Extracted(<<val>>, <<>>) ELSE ExtractFail
      [] node.k = "UnaryOp" ->
            LET r == _extract(node.operand)
            IN IF ~r.ok THEN ExtractFail
               ELSE Extracted(r.operands, <<"unary_" \o node.op>> \o r.operators)
      [] node.k = "BinOp" ->
            LET l == _extract(node.left)
            IN IF ~l.ok THEN ExtractFail
               ELSE LET r == _extract(node.right)
                    IN IF ~r.ok THEN ExtractFail
                       ELSE Extracted(l.operands \o r.operands,
                                      <<node.op>> \o l.operators \o r.operators)
      [] OTHER -> Extracted(<<>>, <<>>)

Signature(operands, operators, structure) ==
    [raised |-> FALSE, operands |-> operands, operators |-> operators,
     structure |-> structure]

SignatureRaised ==
    [raised |-> TRUE, operands |-> Counter(<<>>), operators |-> Counter(<<>>),
     structure |-> <<>>]

_extract_operands_and_operators(eq) ==
    LET tree == ast_parse(eq)
    IN IF ~tree.ok THEN Signature(Counter(<<>>), Counter(<<>>), <<>>)
       ELSE LET r == _extract(tree.node)
            IN IF ~r.ok THEN SignatureRaised
               ELSE Signature(Counter(r.operands), Counter(r.operators),
                              _get_canonical_form(eq))

\* same_operands and same_operators
SameCounters_operands_only(s1, s2) == s1.operands = s2.operands

SameCounters(s1, s2) == s1.operands = s2.operands /\ s1.operators = s2.operators

\* the comparison without the textual fast path
are_equations_equivalent_by_signature(x, y) ==
    LET s1 == _extract_operands_and_operators(x)
        s2 == _extract_operands_and_operators(y)
    IN IF s1.raised \/ s2.raised THEN "TypeError"
       ELSE IF s1.structure = <<>> \/ s2.structure = <<>> THEN "False"
       ELSE IF ~SameCounters(s1, s2) THEN "False"
       ELSE IF s1.structure = s2.structure THEN "True" ELSE "False"

\* the outcome of are_equations_equivalent(x, y): "True", "False", or the
\* TypeError that _extract lets escape
are_equations_equivalent(x, y) ==
    IF RemoveSpaces(x) = RemoveSpaces(y) THEN "True"
    ELSE LET s1 == _extract_operands_and_operators(x)
             s2 == _extract_operands_and_operators(y)
         IN IF s1.raised \/ s2.raised THEN "TypeError"
            ELSE IF s1.structure = <<>> \/ s2.structure = <<>> THEN "False"
            ELSE IF ~SameCounters(s1, s2) THEN "False"
            ELSE IF s1.structure = s2.structure THEN "True" ELSE "False"

\* are_equations_equivalent(eq1, eq2)
AreEquivalent ==
    /\ epc = "input"
    /\ equiv' = are_equations_equivalent(eq1, eq2)
    /\ epc' = "compared"
    /\ UNCHANGED <<eq1, eq2, canon, recanon, eq3, equiv23, equiv13>>
    /\ UNCHANGED <<gvars, vvars, hvars>>

\* _get_canonical_form(eq1), and _get_canonical_form of what it returned
Canonicalize ==
    /\ epc = "input"
    /\ canon' = _get_canonical_form(eq1)
    /\ recanon' = _get_canonical_form(_get_canonical_form(eq1))
    /\ epc' = "canonical"
    /\ UNCHANGED <<eq1, eq2, equiv, eq3, equiv23, equiv13>>
    /\ UNCHANGED <<gvars, vvars, hvars>>

\* are_equations_equivalent called on (eq1, eq2), (eq2, eq3) and (eq1, eq3)
AreEquivalentChain ==
    /\ epc = "chain"
    /\ equiv' = are_equations_equivalent(eq1, eq2)
    /\ equiv23' = are_equations_equivalent(eq2, eq3)
    /\ equiv13' = are_equations_equivalent(eq1, eq3)
    /\ epc' = "chained"
    /\ UNCHANGED <<eq1, eq2, eq3, canon, recanon, gvars, vvars, hvars>>

\* validate_solvable(target, broken_buttons)
ValidateSolvable ==
    /\ hpc = "input"
    /\ solvable' = validate_solvable(htarget, hbroken)
    /\ hpc' = "checked"
    /\ UNCHANGED <<htarget, hbroken, gvars, vvars, evars>>

\* One call of generate_broken_buttons(target, count, attempts) returning [].
GiveUp ==
    /\ pc = "call"
    /\ count <= 0 \/ attempts >= MAX_RECURSION_ATTEMPTS
    /\ broken' = {}
    /\ pc' = "done"
    /\ UNCHANGED <<target, count0, count, attempts, samples, vvars, evars, hvars>>

\* the sample size without the cap at len(breakable)
max_breakable_uncapped(t, c) == c

\* max_breakable = min(count, len(breakable))
max_breakable(t, c) == Min2(c, Cardinality(Breakable(t)))

\* One call that samples and is rejected by the heuristic: it recurses, and
\* the rejected sample (a local of the returning frame) is dropped.
Retry ==
    /\ pc = "call"
    /\ ~(count <= 0 \/ attempts >= MAX_RECURSION_ATTEMPTS)
    /\ \E B \in Sample(Breakable(target), max_breakable(target, count)) :
          Rejects(target, B)
    /\ broken' = {}
    /\ samples' = samples + 1
    /\ count' = count - 1
    /\ attempts' = NextAttempts(attempts)
    /\ UNCHANGED <<target, count0, pc, vvars, evars, hvars>>

\* One call that samples and is accepted: it returns the sample.
Accept ==
    /\ pc = "call"
    /\ ~(count <= 0 \/ attempts >= MAX_RECURSION_ATTEMPTS)
    /\ \E B \in Sample(Breakable(target), max_breakable(target, count)) :
          /\ ~Rejects(target, B)
          /\ broken' = B
    /\ samples' = samples + 1
    /\ pc' = "done"
    /\ UNCHANGED <<target, count0, count, attempts, vvars, evars, hvars>>

NoResult == Result(FALSE, "", NoneValue)

\* the validator is not in use
ValidatorIdle ==
    /\ equation = <<>>
    /\ vtarget = NoneValue
    /\ result = NoResult
    /\ vpc = "idle"

\* the generator is not in use
GeneratorIdle ==
    /\ target = 0
    /\ count0 = 0
    /\ count = 0
    /\ attempts = 0
    /\ samples = 0
    /\ broken = {}
    /\ pc = "idle"

\* the equivalence check is not in use
EquivalenceIdle ==
    /\ eq1 = <<>>
    /\ eq2 = <<>>
    /\ equiv = ""
    /\ canon = <<>>
    /\ recanon = <<>>
    /\ epc = "idle"
    /\ eq3 = <<>>
    /\ equiv23 = ""
    /\ equiv13 = ""

\* the heuristic is not in use on its own
HeuristicIdle ==
    /\ htarget = 0
    /\ hbroken = {}
    /\ solvable = FALSE
    /\ hpc = "idle"

(***************************************************************************)
(* Spec: one call of generate_broken_buttons(target, count)                *)
(***************************************************************************)
Init ==
    /\ target \in Targets
    /\ count0 \in 0..MaxCount
    /\ count = count0
    /\ attempts = 0
    /\ samples = 0
    /\ broken = {}
    /\ pc = "call"
    /\ ValidatorIdle
    /\ EquivalenceIdle
    /\ HeuristicIdle

Next == GiveUp \/ Retry \/ Accept

Spec == Init /\ [][Next]_vars

(***************************************************************************)
(* SpecValidate: one call of validate on an equation text                  *)
(***************************************************************************)
InitValidate ==
    /\ equation \in Equations
    /\ vtarget = NoneValue
    /\ result = NoResult
    /\ vpc = "input"
    /\ GeneratorIdle
    /\ EquivalenceIdle
    /\ HeuristicIdle

NextValidate == Validate \/ RoundTrip

SpecValidate == InitValidate /\ [][NextValidate]_vars

(***************************************************************************)
(* SpecEquivalent: one call of are_equations_equivalent on a pair of       *)
(* texts, or of _get_canonical_form on the first and then on its result    *)
(***************************************************************************)
InitEquivalent ==
    /\ eq1 \in PairTexts
    /\ eq2 \in PairTexts
    /\ equiv = ""
    /\ canon = <<>>
    /\ recanon = <<>>
    /\ epc = "input"
    /\ eq3 = <<>>
    /\ equiv23 = ""
    /\ equiv13 = ""
    /\ GeneratorIdle
    /\ ValidatorIdle
    /\ HeuristicIdle

NextEquivalent == AreEquivalent \/ Canonicalize

SpecEquivalent == InitEquivalent /\ [][NextEquivalent]_vars

(***************************************************************************)
(* SpecChain: are_equations_equivalent on the three pairs of a triple      *)
(***************************************************************************)
InitChain ==
    /\ eq1 \in TripleTexts
    /\ eq2 \in TripleTexts
    /\ eq3 \in TripleTexts
    /\ equiv = ""
    /\ equiv23 = ""
    /\ equiv13 = ""
    /\ canon = <<>>
    /\ recanon = <<>>
    /\ epc = "chain"
    /\ GeneratorIdle
    /\ ValidatorIdle
    /\ HeuristicIdle

NextChain == AreEquivalentChain

SpecChain == InitChain /\ [][NextChain]_vars

(***************************************************************************)
(* SpecSolvable: one call of validate_solvable on any set of broken keys   *)
(***************************************************************************)
InitSolvable ==
    /\ htarget \in HeuristicTargets
    /\ hbroken \in SUBSET ALL_BUTTONS
    /\ solvable = FALSE
    /\ hpc = "input"
    /\ GeneratorIdle
    /\ ValidatorIdle
    /\ EquivalenceIdle

NextSolvable == ValidateSolvable

SpecSolvable == InitSolvable /\ [][NextSolvable]_vars

(***************************************************************************)
(* Properties of generate_broken_buttons                                   *)
(***************************************************************************)
\* the largest estimate the heuristic can give: nothing broken
MaxEstimate == _estimate_max_reachable_value(0..9, OperatorButtons)

\* C1: the returned key set contains no key of required_working(target)
\* and has at most count keys.
C1_BrokenKeyInvariant ==
    pc = "done" =>
        /\ broken \cap _get_required_working_buttons(target) = {}
        /\ Cardinality(broken) <= count0

\* a call that returned exactly count keys, all outside the required set
C1_Witness ==
    /\ pc = "done"
    /\ count0 >= 3
    /\ Cardinality(broken) = count0

\* C2 as stated: every returned key set, the one returned when the retries
\* give up included, is certified by validate_solvable.
C2_AlwaysCertified == pc = "done" => validate_solvable(target, broken)

\* C2 amended: a returned key set is certified when it is not empty or when
\* the target is at most the heuristic's largest estimate; for a larger
\* target the empty set is returned and the heuristic does not certify it.
C2_CertifiedUpToMaxEstimate ==
    pc = "done" =>
        /\ (broken # {} \/ target <= MaxEstimate) => validate_solvable(target, broken)
        /\ target > MaxEstimate => broken = {} /\ ~validate_solvable(target, broken)

\* the retries gave up on a target the heuristic can certify
C2_Witness ==
    /\ pc = "done"
    /\ samples > 0
    /\ broken = {}
    /\ target <= MaxEstimate
    /\ validate_solvable(target, broken)

\* what is left of the attempt budget, plus one for the return
Variant == IF pc = "done" THEN 0 ELSE 1 + (MAX_RECURSION_ATTEMPTS - attempts)

\* a call that has not returned can take its step: random.sample is asked
\* for a number of keys that breakable has
CanStep ==
    \/ count <= 0 \/ attempts >= MAX_RECURSION_ATTEMPTS
    \/ Sample(Breakable(target), max_breakable(target, count)) # {}

\* C3: the call terminates within MAX_RECURSION_ATTEMPTS sampling attempts:
\* every step lowers the natural-number Variant, a retry by raising the
\* attempt counter by one, a call that has not returned can always step,
\* and no run makes more than MAX_RECURSION_ATTEMPTS samples.
C3_Terminates ==
    /\ [](samples <= MAX_RECURSION_ATTEMPTS /\ Variant >= 0)
    /\ [](pc = "call" => CanStep)
    /\ [][/\ Variant' < Variant
          /\ pc' = "call" => attempts' = attempts + 1]_vars

\* the attempt budget, not the count, ended the call
C3_Witness ==
    /\ pc = "done"
    /\ samples = MAX_RECURSION_ATTEMPTS
    /\ count > 0

(***************************************************************************)
(* Properties of validate                                                  *)
(***************************************************************************)
Returned_ == vpc \in {"validated", "roundtrip"}

\* the AST of the stripped text, as validate hands it to safe_eval
Tree == ast_parse(Strip(equation))

\* an AST over numbers, + - * /, and unary minus only
RECURSIVE WellFormed(_)
WellFormed(node) ==
    CASE node.k = "Constant" -> node.tok.t \in {"int", "float"}
      [] node.k = "UnaryOp" -> node.op = "USub" /\ WellFormed(node.operand)
      [] node.k = "BinOp" ->
            /\ node.op \in {"Add", "Sub", "Mult", "Div"}
            /\ WellFormed(node.left)
            /\ WellFormed(node.right)
      [] OTHER -> FALSE

\* the AST has a unary plus somewhere
RECURSIVE HasUAdd(_)
HasUAdd(node) ==
    CASE node.k = "UnaryOp" -> node.op = "UAdd" \/ HasUAdd(node.operand)
      [] node.k = "BinOp" -> HasUAdd(node.left) \/ HasUAdd(node.right)
      [] node.k = "Call" -> HasUAdd(node.func)
      [] OTHER -> FALSE

\* some division of a well-formed AST has a right operand that is exactly 0
RECURSIVE HasZeroDivisor(_)
HasZeroDivisor(node) ==
    CASE node.k = "UnaryOp" -> HasZeroDivisor(node.operand)
      [] node.k = "BinOp" ->
            \/ HasZeroDivisor(node.left)
            \/ HasZeroDivisor(node.right)
            \/ /\ node.op = "Div"
               /\ LET r == _eval_node(node.right)
                  IN r.status = "ok" /\ r.value.t = "num" /\ r.value.n = 0
      [] OTHER -> FALSE

\* the equation is well formed: its stripped text parses to a well-formed AST
EquationWellFormed == Tree.ok /\ WellFormed(Tree.node)

\* a '+' that is the first non-blank character after the start or a '('
UnaryPlusPosition(s) ==
    \E i \in 1..Len(s) :
        /\ s[i] = "+"
        /\ \E j \in 0..(i - 1) :
              /\ j = 0 \/ s[j] = "("
              /\ \A m \in (j + 1)..(i - 1) : s[m] = " "

\* C4: valid with a value and no error text, or not valid with an error
\* text; never valid without a value.
C4_ResultShape ==
    Returned_ =>
        \/ result.valid /\ result.value.t = "num" /\ result.error = ""
        \/ ~result.valid /\ result.error # ""

\* a division by zero reported as data
C4_Witness ==
    /\ vpc = "validated"
    /\ ~result.valid
    /\ result.error = "Division by zero"
    /\ result.value = NoneValue

\* C5: validate(E, evaluate(E)) is valid for every well-formed equation E
\* without a division by zero.
C5_RoundTrip ==
    (vpc = "roundtrip" /\ EquationWellFormed) => result.valid

\* C6: "Unary plus is not allowed" is reported only when a '+' stands at
\* the start of the text or after '(', blanks aside.
C6_UnaryPlusOnlyWhereUnary ==
    (Returned_ /\ result.error = "Unary plus is not allowed")
        => UnaryPlusPosition(Strip(equation))

\* C7: an equation with a prefix '+' anywhere is rejected without a value,
\* as unary-plus-not-allowed or as a syntax error.
C7_PrefixPlusRejected ==
    (Returned_ /\ ~HasIllegalChar(Strip(equation)) /\ Tree.ok /\ HasUAdd(Tree.node))
        => /\ ~result.valid
           /\ result.value = NoneValue
           /\ result.error \in {"Unary plus is not allowed",
                                "Invalid equation: Invalid syntax in expression"}

\* C8: the checks run in the order empty, illegal character, unary plus,
\* parse, evaluate, compare, and the first that fails gives the reason.
C8_CheckOrder ==
    Returned_ =>
        LET s == Strip(equation)
            ill == HasIllegalChar(s)
            plus == UnaryPlusMatch(s)
            ev == _eval_node(Tree.node)
        IN /\ s = <<>> => result.error = "Equation is empty"
           /\ (s # <<>> /\ ill) => result.error = "Invalid characters in equation"
           /\ (s # <<>> /\ ~ill /\ plus) => result.error = "Unary plus is not allowed"
           /\ (s # <<>> /\ ~ill /\ ~plus /\ ~Tree.ok)
                 => result.error = "Invalid equation: Invalid syntax in expression"
           /\ (s # <<>> /\ ~ill /\ ~plus /\ Tree.ok /\ ev.status = "ZeroDivisionError")
                 => result.error = "Division by zero"
           /\ (s # <<>> /\ ~ill /\ ~plus /\ Tree.ok /\ ev.status = "TypeError")
                 => result.error = "Invalid equation: " \o ev.detail
           /\ (s # <<>> /\ ~ill /\ ~plus /\ Tree.ok /\ ev.status = "ok" /\ ev.value.t = "num")
                 => \/ result.valid /\ result.error = ""
                    \/ ~result.valid /\ result.error = "Result is {value:.2f}, not {target}"

\* an illegal character and a leading '+' together: the character wins
C8_Witness ==
    /\ vpc = "validated"
    /\ HasIllegalChar(Strip(equation))
    /\ UnaryPlusMatch(Strip(equation))
    /\ result.error = "Invalid characters in equation"

\* C9: a text of permitted characters whose parse has a construct other
\* than numbers, + - * /, and unary minus never yields a value, and is not
\* valid.
C9_ClosedOperatorSet ==
    (Returned_ /\ ~HasIllegalChar(Strip(equation)) /\ Tree.ok /\ ~WellFormed(Tree.node))
        => ~result.valid /\ result.value = NoneValue

\* C10: a well-formed equation with a division whose right operand is
\* exactly zero is reported as "Division by zero", without a value.
C10_DivisionByZero ==
    (Returned_ /\ EquationWellFormed /\ HasZeroDivisor(Tree.node))
        => /\ ~result.valid
           /\ result.error = "Division by zero"
           /\ result.value = NoneValue

(***************************************************************************)
(* Properties of are_equations_equivalent and _get_canonical_form          *)
(***************************************************************************)
Tree1 == ast_parse(eq1)

Tree2 == ast_parse(eq2)

\* both texts parse to ASTs over numbers, + - * /, and unary minus
BothWellFormed ==
    /\ Tree1.ok /\ WellFormed(Tree1.node)
    /\ Tree2.ok /\ WellFormed(Tree2.node)

\* the operands of a chain of one operator, however it is parenthesized
RECURSIVE ChainOperands(_, _)
ChainOperands(node, op) ==
    IF node.k = "BinOp" /\ node.op = op
    THEN ChainOperands(node.left, op) \o ChainOperands(node.right, op)
    ELSE <<node>>

Bijections(n) ==
    {f \in [1..n -> 1..n] : \A i, j \in 1..n : f[i] = f[j] => i = j}

\* t2 is t1 with the operands of '+' and '*' chains reordered and the
\* chains parenthesized differently, at any depth; everything else equal
RECURSIVE Rearranged(_, _)
Rearranged(t1, t2) ==
    CASE t1.k = "Constant" /\ t2.k = "Constant" -> t1.tok = t2.tok
      [] t1.k = "UnaryOp" /\ t2.k = "UnaryOp" ->
            t1.op = t2.op /\ Rearranged(t1.operand, t2.operand)
      [] t1.k = "BinOp" /\ t2.k = "BinOp" ->
            /\ t1.op = t2.op
            /\ IF t1.op \in {"Add", "Mult"}
               THEN LET l1 == ChainOperands(t1, t1.op)
                        l2 == ChainOperands(t2, t2.op)
                    IN /\ Len(l1) = Len(l2)
                       /\ \E f \in Bijections(Len(l1)) :
                             \A i \in 1..Len(l1) : Rearranged(l1[i], l2[f[i]])
               ELSE /\ Rearranged(t1.left, t2.left)
                    /\ Rearranged(t1.right, t2.right)
      [] OTHER -> FALSE

C12_Swapped ==
    /\ BothWellFormed
    /\ Tree1.node.k = "BinOp"
    /\ Tree2.node.k = "BinOp"
    /\ Tree1.node.op \in {"Sub", "Div"}
    /\ Tree2.node.op = Tree1.node.op
    /\ Tree2.node.left = Tree1.node.right
    /\ Tree2.node.right = Tree1.node.left
    /\ _canonicalize(Tree1.node.left) # _canonicalize(Tree1.node.right)

C12_OrderSensitive ==
    (epc = "compared" /\ C12_Swapped) => equiv = "False"

\* a quotient and its swap, one operand itself an operation
C12_Witness ==
    /\ epc = "compared"
    /\ C12_Swapped
    /\ Tree1.node.left.k = "BinOp"
    /\ equiv = "False"

\* the numbers at the leaves of an AST, left to right
RECURSIVE Leaves(_)
Leaves(node) ==
    CASE node.k = "Constant" -> <<TokenValue(node.tok)>>
      [] node.k = "UnaryOp" -> Leaves(node.operand)
      [] node.k = "BinOp" -> Leaves(node.left) \o Leaves(node.right)
      [] OTHER -> <<>>

\* the operator kinds of an AST, a unary operator as a kind of its own
RECURSIVE Kinds(_)
Kinds(node) ==
    CASE node.k = "UnaryOp" -> <<<<"unary", node.op>>>> \o Kinds(node.operand)
      [] node.k = "BinOp" ->
            <<<<"binary", node.op>>>> \o Kinds(node.left) \o Kinds(node.right)
      [] OTHER -> <<>>

Occurrences(x, l) == Cardinality({i \in 1..Len(l) : l[i] = x})

\* l1 and l2 hold the same elements the same number of times
SameMultiset(l1, l2) ==
    /\ Len(l1) = Len(l2)
    /\ \A i \in 1..Len(l1) : Occurrences(l1[i], l1) = Occurrences(l1[i], l2)

\* C13: for texts that differ once spaces are removed, the answer is True
\* only if the operand multisets, the operator-kind multisets and the
\* canonical forms are all equal.
C13_AllThree ==
    (epc = "compared" /\ RemoveSpaces(eq1) # RemoveSpaces(eq2) /\ equiv = "True")
        => /\ Tree1.ok /\ Tree2.ok
           /\ SameMultiset(Leaves(Tree1.node), Leaves(Tree2.node))
           /\ SameMultiset(Kinds(Tree1.node), Kinds(Tree2.node))
           /\ _get_canonical_form(eq1) = _get_canonical_form(eq2)

\* same value, different operands or operators: not equivalent
C13_Witness ==
    /\ epc = "compared"
    /\ BothWellFormed
    /\ safe_eval(eq1).status = "ok"
    /\ safe_eval(eq1) = safe_eval(eq2)
    /\ ~SameMultiset(Kinds(Tree1.node), Kinds(Tree2.node))
    /\ equiv = "False"

\* C14: for well-formed equations, equal canonical forms come with equal
\* operand Counters and equal operator Counters.
C14_CrossCheckAgrees ==
    (epc = "compared" /\ BothWellFormed
     /\ _get_canonical_form(eq1) = _get_canonical_form(eq2))
        => LET s1 == _extract_operands_and_operators(eq1)
               s2 == _extract_operands_and_operators(eq2)
           IN /\ s1.operands = s2.operands
              /\ s1.operators = s2.operators
              /\ SameMultiset(Leaves(Tree1.node), Leaves(Tree2.node))
              /\ SameMultiset(Kinds(Tree1.node), Kinds(Tree2.node))

\* two different trees with one canonical form, a unary minus among them
C14_Witness ==
    /\ epc = "compared"
    /\ BothWellFormed
    /\ Tree1.node # Tree2.node
    /\ _get_canonical_form(eq1) = _get_canonical_form(eq2)
    /\ \E i \in 1..Len(Kinds(Tree1.node)) : Kinds(Tree1.node)[i][1] = "unary"
    /\ equiv = "True"

\* C15: are_equations_equivalent is reflexive and symmetric on all texts.
C15_ReflexiveSymmetric ==
    epc = "compared"
        => /\ eq1 = eq2 => equiv = "True"
           /\ equiv = are_equations_equivalent(eq2, eq1)

\* a text that does not parse compared with itself, and an asymmetric-looking
\* pair (one parses, one does not) answered False
C15_Witness ==
    /\ epc = "compared"
    /\ \/ eq1 = eq2 /\ ~Tree1.ok /\ eq1 # <<>> /\ equiv = "True"
       \/ Tree1.ok /\ ~Tree2.ok /\ equiv = "False"

\* C16: canonicalizing a canonical form returns it unchanged.
C16_Idempotent ==
    epc = "canonical" => recanon = canon

\* the outcome of evaluating the two equations is the same: one value, or
\* a division by zero in both
SameEvaluation ==
    LET r1 == safe_eval(eq1)
        r2 == safe_eval(eq2)
    IN \/ r1.status = "ok" /\ r2.status = "ok" /\ r1.value = r2.value
       \/ r1.status = "ZeroDivisionError" /\ r2.status = "ZeroDivisionError"

\* C17: two well-formed equations reported equivalent evaluate alike, and
\* validate accepts both or neither for any target.
C17_AgreesWithEvaluator ==
    (epc = "compared" /\ BothWellFormed /\ equiv = "True")
        => /\ SameEvaluation
           /\ \A t \in 0..MaxVTarget :
                 validate(eq1, IntRat(t)).valid = validate(eq2, IntRat(t)).valid

(***************************************************************************)
(* The retry protocol and the heuristic                                    *)
(***************************************************************************)
\* the keys that may be broken for the target
BreakableKeys == ALL_BUTTONS \ _get_required_working_buttons(target)

\* the current call samples (it does not return [] at once)
Sampling == pc = "call" /\ count > 0 /\ attempts < MAX_RECURSION_ATTEMPTS

\* C18: attempt k (the call with attempts = k) runs with count - k and
\* samples min(count - k, |breakable|) distinct keys; a rejection is followed
\* by the call with count one smaller and attempts one larger; [] is
\* returned exactly when count has reached 0 or 10 attempts are used; a call
\* can always take its step; a non-empty result is the first accepted sample.
C18_RetryProtocol ==
    /\ [](pc = "call" => /\ count = count0 - attempts
                         /\ samples = attempts
                         /\ CanStep)
    /\ [](Sampling =>
             \A B \in Sample(Breakable(target), max_breakable(target, count)) :
                /\ B \subseteq BreakableKeys
                /\ Cardinality(B) = Min2(count0 - attempts, Cardinality(BreakableKeys)))
    /\ [](pc = "done" =>
             IF samples = attempts
             THEN /\ broken = {}
                  /\ count <= 0 \/ attempts >= MAX_RECURSION_ATTEMPTS
             ELSE /\ samples = attempts + 1
                  /\ broken # {}
                  /\ validate_solvable(target, broken)
                  /\ Cardinality(broken)
                        = Min2(count0 - attempts, Cardinality(BreakableKeys)))
    /\ [][(pc = "call" /\ pc' = "call") =>
             /\ count' = count - 1
             /\ attempts' = attempts + 1
             /\ samples' = samples + 1]_vars

\* a count above the number of breakable keys: the first sample is rejected,
\* the second has every breakable key and is rejected too, a later one is
\* accepted
C18_Witness ==
    /\ pc = "done"
    /\ count0 > Cardinality(BreakableKeys)
    /\ attempts >= 2
    /\ broken # {}
    /\ Cardinality(broken) = count0 - attempts

\* the bound the heuristic is said to compare the target with
C19_Bound ==
    LET digits == {DigitValue(b) : b \in DigitButtons \ hbroken}
        maxDigit == MaxOf(digits)
    IN MaxOf({10 * maxDigit}
             \cup (IF "+" \notin hbroken THEN {5 * SumOf(digits)} ELSE {})
             \cup (IF "*" \notin hbroken /\ Cardinality(digits) >= 2
                   THEN {maxDigit * maxDigit} ELSE {}))

\* C19: validate_solvable is false when no digit key or no operator key is
\* enabled, else true exactly when target <= the bound; the parentheses keys
\* do not matter.
C19_Heuristic ==
    hpc = "checked" =>
        /\ solvable =
              IF DigitButtons \subseteq hbroken \/ OperatorButtons \subseteq hbroken
              THEN FALSE
              ELSE htarget <= C19_Bound
        /\ validate_solvable(htarget, hbroken \cup {"(", ")"}) = solvable
        /\ validate_solvable(htarget, hbroken \ {"(", ")"}) = solvable

\* the sum term decides: 10 * maxDigit is below the target, 5 * sum is not
C19_Witness ==
    /\ hpc = "checked"
    /\ solvable
    /\ "(" \in hbroken
    /\ "9" \in hbroken
    /\ htarget = 91

\* C20: the estimate is at most 225; for a target above 225 every sample
\* is rejected and [] is returned; for a target of at most 10 and a count of
\* at least 1 the first sample is accepted and min(count, 14) keys are broken.
C20_Extremes ==
    /\ MaxEstimate = 225
    /\ pc = "done" =>
          _estimate_max_reachable_value(
              {DigitValue(b) : b \in DigitButtons \ broken},
              OperatorButtons \ broken) <= 225
    /\ (target > 225 /\ Sampling) =>
          \A B \in Sample(Breakable(target), max_breakable(target, count)) :
             Rejects(target, B)
    /\ (target > 225 /\ pc = "done") => broken = {} /\ samples = attempts
    /\ (target <= 10 /\ count0 >= 1) =>
          /\ attempts = 0
          /\ pc = "done" => /\ samples = 1
                            /\ Cardinality(broken) = Min2(count0, 14)

\* all 14 breakable keys broken at the first attempt, for a count above 14
C20_Witness ==
    /\ pc = "done"
    /\ target <= 10
    /\ count0 > 14
    /\ samples = 1
    /\ Cardinality(broken) = 14

(***************************************************************************)
(* Transitivity of are_equations_equivalent                                *)
(***************************************************************************)
\* the text is a well-formed equation, as validate reads it: stripped, it
\* parses to an AST over numbers, + - * /, and unary minus
WellFormedEquation(e) ==
    LET t == ast_parse(Strip(e)) IN t.ok /\ WellFormed(t.node)

\* C21: on well-formed equations, e1 equivalent to e2 and e2 to e3 give e1
\* equivalent to e3, whichever of the two ways decides each step.
C21_Transitive ==
    (/\ epc = "chained"
     /\ WellFormedEquation(eq1) /\ WellFormedEquation(eq2) /\ WellFormedEquation(eq3)
     /\ equiv = "True"
     /\ equiv23 = "True")
        => equiv13 = "True"

====
